---- MODULE Spec2Model ----
(***************************************************************************)
(* Model of app.py: the Streamlit data-analysis page.                      *)
(*                                                                         *)
(* A DataFrame is a record [rows, dtypes]: rows is the sequence of rows    *)
(* (each a function from column name to cell), dtypes the dtype pandas     *)
(* fixed for each column when the file was read.  A cell is a pair         *)
(* <<kind, value>>: NaN (missing), Num(n) or Str(s).                        *)
(***************************************************************************)
EXTENDS Integers, Sequences, FiniteSets, TLC

VARIABLES uploaded_file, analysis_options, df, pc, log, out

vars == <<uploaded_file, analysis_options, df, pc, log, out>>

\* ------------------------------------------------------------------ bounds
MaxRows == 4
MaxApply == 2
MaxPageRows == 2

\* ------------------------------------------------------------------ cells
Columns == {"age", "city"}

NaN == <<"nan", 0>>
Num(n) == <<"num", n>>
Str(s) == <<"str", s>>

isnull(cell) == cell[1] = "nan"

\* The numerals a CSV field of the model can hold, with their values.  The
\* values are even, so the midpoint of two of them is an integer.
NumeralValue == [s \in {"0", "2"} |-> IF s = "0" THEN 0 ELSE 2]

\* pd.read_csv on one field: the empty field is missing, a numeral is a
\* number, anything else is text.
ParseField(s) ==
    IF s = "" THEN NaN
    ELSE IF s \in DOMAIN NumeralValue THEN Num(NumeralValue[s])
    ELSE Str(s)

\* ------------------------------------------------------------------ files
AgeFields == {"", "0", "2"}
CityFields == {"", "A", "B"}
PageCityFields == {"", "A"}

SeqsUpTo(S, n) == UNION {[1..k -> S] : k \in 0..n}

\* An uploaded CSV file: its records, each a sequence of fields in the
\* order of the header "age,city".
Records(ageFields, cityFields) == {<<a, c>> : a \in ageFields, c \in cityFields}

WellFormedFiles(ageFields, cityFields, n) == SeqsUpTo(Records(ageFields, cityFields), n)

\* A record with more fields than the header: pd.read_csv raises ParserError.
MalformedFile == << <<"0", "A">>, <<"0", "A", "A">> >>

HeaderLen == Cardinality(Columns)

ColumnAt(i) == IF i = 1 THEN "age" ELSE "city"

\* dtype inference of pd.read_csv: a column with no rows is object; a column
\* whose cells are numbers or missing is float64/int64; otherwise object.
InferDtype(rows, c) ==
    IF rows = <<>> THEN "object"
    ELSE IF \A i \in 1..Len(rows) : rows[i][c][1] # "str" THEN "number"
    ELSE "object"

read_csv(file) ==
    LET rows == [i \in 1..Len(file) |->
                    [c \in Columns |->
                        ParseField(file[i][CHOOSE k \in 1..HeaderLen : ColumnAt(k) = c])]]
    IN [rows |-> rows, dtypes |-> [c \in Columns |-> InferDtype(rows, c)]]

ParserError(file) == \E i \in 1..Len(file) : Len(file[i]) > HeaderLen

\* Python's None where a DataFrame is expected.
None == [rows |-> <<>>, dtypes |-> [c \in Columns |-> "None"]]

\* load_data: the table, or None when pd.read_csv raised (reported by st.error).
load_data(file) == IF ParserError(file) THEN None ELSE read_csv(file)

\* ------------------------------------------------------------------ clean_data
Range(s) == {s[i] : i \in 1..Len(s)}

\* Faulty variant of drop_duplicates: keep="last".
RECURSIVE drop_duplicates_last(_)
drop_duplicates_last(rows) ==
    IF rows = <<>> THEN <<>>
    ELSE LET rest == drop_duplicates_last(Tail(rows))
         IN IF Head(rows) \in Range(Tail(rows)) THEN rest ELSE <<Head(rows)>> \o rest

\* DataFrame.drop_duplicates(): keep="first"; missing cells compare equal.
RECURSIVE drop_duplicates(_)
drop_duplicates(rows) ==
    IF rows = <<>> THEN <<>>
    ELSE LET n == Len(rows)
             front == drop_duplicates(SubSeq(rows, 1, n - 1))
         IN IF rows[n] \in Range(SubSeq(rows, 1, n - 1)) THEN front
            ELSE Append(front, rows[n])

select_dtypes_number(d) == {c \in Columns : d.dtypes[c] = "number"}

\* The non-missing values of column c, in row order.
RECURSIVE dropna(_, _)
dropna(rows, c) ==
    IF rows = <<>> THEN <<>>
    ELSE IF isnull(Head(rows)[c]) THEN dropna(Tail(rows), c)
    ELSE <<Head(rows)[c][2]>> \o dropna(Tail(rows), c)

RECURSIVE Insert(_, _)
Insert(sorted, x) ==
    IF sorted = <<>> THEN <<x>>
    ELSE IF x <= Head(sorted) THEN <<x>> \o sorted
    ELSE <<Head(sorted)>> \o Insert(Tail(sorted), x)

RECURSIVE sort_values(_)
sort_values(s) == IF s = <<>> THEN <<>> ELSE Insert(sort_values(Tail(s)), Head(s))

\* Series.median(): skips missing values; the middle value, or the mean of
\* the two middle values; NaN for a column with no value.
median(rows, c) ==
    LET s == sort_values(dropna(rows, c))
        n == Len(s)
    IN IF n = 0 THEN NaN
       ELSE IF n % 2 = 1 THEN Num(s[(n + 1) \div 2])
       ELSE Num((s[n \div 2] + s[n \div 2 + 1]) \div 2)

\* DataFrame.fillna(medians) on the numeric columns.
fillna(rows, cols, med) ==
    [i \in 1..Len(rows) |->
        [c \in Columns |->
            IF c \in cols /\ isnull(rows[i][c]) THEN med[c] ELSE rows[i][c]]]

\* Faulty variant of clean_data: the medians are those of the table before
\* deduplication.
clean_data_median_first(d) ==
    LET numeric_cols == select_dtypes_number(d)
        med == [c \in numeric_cols |-> median(d.rows, c)]
    IN [rows |-> fillna(drop_duplicates(d.rows), numeric_cols, med), dtypes |-> d.dtypes]

\* Faulty variant of clean_data: deduplication without imputation.
clean_data_no_fill(d) == [rows |-> drop_duplicates(d.rows), dtypes |-> d.dtypes]

\* clean_data: drop_duplicates, then fillna with the medians of the
\* deduplicated table's numeric columns.
clean_data(d) ==
    LET dedup == drop_duplicates(d.rows)
        numeric_cols == select_dtypes_number(d)
        med == [c \in numeric_cols |-> median(dedup, c)]
    IN [rows |-> fillna(dedup, numeric_cols, med), dtypes |-> d.dtypes]

\* ------------------------------------------------------------------ filter_by_view_indicator
\* df[filter_column].dropna().unique()
unique_values(d, c) == {d.rows[i][c] : i \in {j \in 1..Len(d.rows) : ~isnull(d.rows[j][c])}}

isin(cell, values) == cell \in values

\* Faulty variant of filter_by_view_indicator: rows with a missing value in the
\* filter column are kept.
filter_keeps_missing(d, filter_column, selected_values) ==
    IF unique_values(d, filter_column) # {}
    THEN IF selected_values # {}
         THEN [rows |-> SelectSeq(d.rows, LAMBDA r : \/ isin(r[filter_column], selected_values)
                                                     \/ isnull(r[filter_column])),
               dtypes |-> d.dtypes]
         ELSE d
    ELSE d

\* Faulty variant of filter_by_view_indicator: an empty selection is applied like
\* any other.
filter_applies_empty_selection(d, filter_column, selected_values) ==
    [rows |-> SelectSeq(d.rows, LAMBDA r : isin(r[filter_column], selected_values)),
     dtypes |-> d.dtypes]

filter_by_view_indicator(d, filter_column, selected_values) ==
    IF unique_values(d, filter_column) # {}
    THEN IF selected_values # {}
         THEN [rows |-> SelectSeq(d.rows, LAMBDA r : isin(r[filter_column], selected_values)),
               dtypes |-> d.dtypes]
         ELSE d
    ELSE d

\* ------------------------------------------------------------------ null_percentage_analysis
RECURSIVE CountNull(_, _)
CountNull(rows, c) ==
    IF rows = <<>> THEN 0
    ELSE (IF isnull(Head(rows)[c]) THEN 1 ELSE 0) + CountNull(Tail(rows), c)

\* x.isnull().mean() * 100 as the exact fraction num / den (den = 0: NaN).
NullPercentage(rows, c) == [num |-> 100 * CountNull(rows, c), den |-> Len(rows)]

GroupKey(r, grouping_options) == [g \in grouping_options |-> r[g]]

\* DataFrame.groupby(keys) with its default dropna=True: a row with a
\* missing value in a key column belongs to no group.
GroupKeys(rows, grouping_options) ==
    {GroupKey(rows[i], grouping_options) :
        i \in {j \in 1..Len(rows) : \A g \in grouping_options : ~isnull(rows[j][g])}}

GroupRows(rows, grouping_options, key) ==
    SelectSeq(rows, LAMBDA r : GroupKey(r, grouping_options) = key)

null_percentage_analysis(d, grouping_options, features, raised) ==
    IF features = {} THEN [kind |-> "info"]
    ELSE IF grouping_options # {}
    THEN IF raised THEN [kind |-> "error"]
         ELSE [kind |-> "grouped",
               report |-> [k \in GroupKeys(d.rows, grouping_options) |->
                             [f \in features |->
                                NullPercentage(GroupRows(d.rows, grouping_options, k), f)]]]
    ELSE [kind |-> "ungrouped",
          report |-> [f \in features |-> NullPercentage(d.rows, f)]]

\* ------------------------------------------------------------------ column_view_indicator
Views == {"Summary Statistics", "Null Percentage", "Distribution Plot", "Box Plot",
          "Value Counts"}

\* Faulty variant of is_numeric_dtype: every column passes.
is_numeric_dtype_any(d, c) == d.dtypes[c] \in {"number", "object"}

is_numeric_dtype(d, c) == d.dtypes[c] = "number"

\* Series.describe(), reduced to its count row and, for a numeric column,
\* its 50% row.
describe(d, c) ==
    IF is_numeric_dtype(d, c)
    THEN [count |-> Len(dropna(d.rows, c)), median |-> median(d.rows, c)]
    ELSE [count |-> Len(dropna(d.rows, c)), unique |-> Cardinality(unique_values(d, c))]

\* Series.value_counts(): missing values are not counted.
value_counts(d, c) ==
    [v \in unique_values(d, c) |-> Len(SelectSeq(d.rows, LAMBDA r : r[c] = v))]

column_view_indicator(d, column, view_indicator) ==
    CASE view_indicator = "Summary Statistics" ->
            [kind |-> "write", value |-> describe(d, column)]
      [] view_indicator = "Null Percentage" ->
            [kind |-> "write", value |-> NullPercentage(d.rows, column)]
      [] view_indicator = "Distribution Plot" ->
            IF is_numeric_dtype(d, column)
            THEN [kind |-> "pyplot", plot |-> "histplot", sample |-> dropna(d.rows, column)]
            ELSE [kind |-> "warning"]
      [] view_indicator = "Box Plot" ->
            IF is_numeric_dtype(d, column)
            THEN [kind |-> "pyplot", plot |-> "boxplot", sample |-> dropna(d.rows, column)]
            ELSE [kind |-> "warning"]
      [] view_indicator = "Value Counts" ->
            [kind |-> "write", value |-> value_counts(d, column)]

\* ------------------------------------------------------------------ explore_data, analyze_with_ollama
HasText(d) == \E i \in 1..Len(d.rows) : \E c \in Columns : d.rows[i][c][1] = "str"

head(rows) == SubSeq(rows, 1, IF Len(rows) < 5 THEN Len(rows) ELSE 5)

\* explore_data writes the overview; df.corr() is not inside any try, and
\* on a table holding text it raises ValueError with pandas >= 2.0 (older
\* versions drop the text columns), which is the value of `raised`.
explore_data(d, raised) ==
    IF raised THEN [kind |-> "exception"]
    ELSE [kind |-> "overview",
          head |-> head(d.rows),
          missing |-> [c \in Columns |-> CountNull(d.rows, c)],
          pairplot |-> (select_dtypes_number(d) # {} /\ d.rows # <<>>)]

\* analyze_with_ollama: a failure of ollama.chat is caught and reported.
analyze_with_ollama(d, raised) ==
    IF raised THEN [kind |-> "error"] ELSE [kind |-> "text"]

\* ------------------------------------------------------------------ show_analysis_page
Options == {"Show Raw Data", "Clean Data", "Exploratory Data Analysis", "Ollama Analysis",
            "Null Percentage Analysis", "Column View Indicator", "Filter by View Indicator"}

NoOutput == [kind |-> "none"]

Entry(op, arg, res) == [op |-> op, arg |-> arg, res |-> res]

PageFiles ==
    {[present |-> FALSE, records |-> <<>>], [present |-> TRUE, records |-> MalformedFile]}
    \cup {[present |-> TRUE, records |-> f] :
            f \in WellFormedFiles(AgeFields, PageCityFields, MaxPageRows)}

Init ==
    /\ uploaded_file \in PageFiles
    /\ analysis_options \in SUBSET Options
    /\ df = None
    /\ pc = "load"
    /\ log = <<>>
    /\ out = NoOutput

\* Lines 174-176 and 194-195.
Load ==
    /\ pc = "load"
    /\ IF ~uploaded_file.present
       THEN /\ pc' = "done"
            /\ out' = [kind |-> "info"]
            /\ UNCHANGED df
       ELSE /\ df' = load_data(uploaded_file.records)
            /\ IF df' = None
               THEN pc' = "done" /\ out' = [kind |-> "error"]
               ELSE pc' = "raw" /\ UNCHANGED out
    /\ UNCHANGED <<uploaded_file, analysis_options, log>>

ShowRawData ==
    /\ pc = "raw"
    /\ pc' = "clean"
    /\ IF "Show Raw Data" \in analysis_options
       THEN /\ log' = Append(log, Entry("Show Raw Data", df, df))
            /\ out' = [kind |-> "dataframe", value |-> df]
       ELSE UNCHANGED <<log, out>>
    /\ UNCHANGED <<uploaded_file, analysis_options, df>>

CleanData ==
    /\ pc = "clean"
    /\ pc' = "filter"
    /\ IF "Clean Data" \in analysis_options
       THEN /\ df' = clean_data(df)
            /\ log' = Append(log, Entry("Clean Data", df, df'))
            /\ out' = [kind |-> "dataframe", value |-> df']
       ELSE UNCHANGED <<df, log, out>>
    /\ UNCHANGED <<uploaded_file, analysis_options>>

\* What filter_by_view_indicator shows for its result.
FilterOutput(d, filter_column, selected_values) ==
    IF unique_values(d, filter_column) # {} /\ selected_values # {}
    THEN [kind |-> "dataframe", value |-> filter_by_view_indicator(d, filter_column, selected_values)]
    ELSE [kind |-> "info"]

\* Faulty variant of FilterByViewIndicator: the filtered table is shown but not
\* assigned to df.
FilterByViewIndicator_unassigned ==
    /\ pc = "filter"
    /\ pc' = "explore"
    /\ IF "Filter by View Indicator" \in analysis_options
       THEN \E filter_column \in Columns :
              \E selected_values \in SUBSET unique_values(df, filter_column) :
                 /\ UNCHANGED df
                 /\ log' = Append(log, Entry("Filter by View Indicator", df,
                              filter_by_view_indicator(df, filter_column, selected_values)))
                 /\ out' = FilterOutput(df, filter_column, selected_values)
       ELSE UNCHANGED <<df, log, out>>
    /\ UNCHANGED <<uploaded_file, analysis_options>>

FilterByViewIndicator ==
    /\ pc = "filter"
    /\ pc' = "explore"
    /\ IF "Filter by View Indicator" \in analysis_options
       THEN \E filter_column \in Columns :
              \E selected_values \in SUBSET unique_values(df, filter_column) :
                 /\ df' = filter_by_view_indicator(df, filter_column, selected_values)
                 /\ log' = Append(log, Entry("Filter by View Indicator", df, df'))
                 /\ out' = FilterOutput(df, filter_column, selected_values)
       ELSE UNCHANGED <<df, log, out>>
    /\ UNCHANGED <<uploaded_file, analysis_options>>

\* An exception that leaves explore_data ends the run of the script: the
\* statements after line 187 are not executed.
ExploratoryDataAnalysis ==
    /\ pc = "explore"
    /\ IF "Exploratory Data Analysis" \in analysis_options
       THEN \E raised \in (IF HasText(df) THEN BOOLEAN ELSE {FALSE}) :
              /\ out' = explore_data(df, raised)
              /\ log' = Append(log, Entry("Exploratory Data Analysis", df, df))
              /\ pc' = IF raised THEN "aborted" ELSE "ollama"
       ELSE pc' = "ollama" /\ UNCHANGED <<log, out>>
    /\ UNCHANGED <<uploaded_file, analysis_options, df>>

OllamaAnalysis ==
    /\ pc = "ollama"
    /\ pc' = "null"
    /\ IF "Ollama Analysis" \in analysis_options
       THEN \E raised \in BOOLEAN :
              /\ out' = analyze_with_ollama(df, raised)
              /\ log' = Append(log, Entry("Ollama Analysis", df, df))
       ELSE UNCHANGED <<log, out>>
    /\ UNCHANGED <<uploaded_file, analysis_options, df>>

NullPercentageAnalysis ==
    /\ pc = "null"
    /\ pc' = "column"
    /\ IF "Null Percentage Analysis" \in analysis_options
       THEN \E grouping_options \in SUBSET Columns, features \in SUBSET Columns :
            \E raised \in BOOLEAN :
              /\ out' = null_percentage_analysis(df, grouping_options, features, raised)
              /\ log' = Append(log, Entry("Null Percentage Analysis", df, df))
       ELSE UNCHANGED <<log, out>>
    /\ UNCHANGED <<uploaded_file, analysis_options, df>>

ColumnViewIndicator ==
    /\ pc = "column"
    /\ pc' = "done"
    /\ IF "Column View Indicator" \in analysis_options
       THEN \E column \in Columns, view_indicator \in Views :
              /\ out' = column_view_indicator(df, column, view_indicator)
              /\ log' = Append(log, Entry("Column View Indicator", df, df))
       ELSE UNCHANGED <<log, out>>
    /\ UNCHANGED <<uploaded_file, analysis_options, df>>

Next ==
    \/ Load
    \/ ShowRawData
    \/ CleanData
    \/ FilterByViewIndicator
    \/ ExploratoryDataAnalysis
    \/ OllamaAnalysis
    \/ NullPercentageAnalysis
    \/ ColumnViewIndicator

Spec == Init /\ [][Next]_vars

\* ------------------------------------------------------------------ clean_data on its own
\* Every table of up to MaxRows rows, as load_data returns it, with
\* clean_data applied to its own result up to MaxApply times.
InitClean ==
    /\ uploaded_file \in {[present |-> TRUE, records |-> f] :
                            f \in WellFormedFiles(AgeFields, CityFields, MaxRows)}
    /\ analysis_options = {"Clean Data"}
    /\ df = load_data(uploaded_file.records)
    /\ pc = "clean_data"
    /\ log = <<>>
    /\ out = NoOutput

ApplyCleanData ==
    /\ pc = "clean_data"
    /\ Len(log) < MaxApply
    /\ df' = clean_data(df)
    /\ log' = Append(log, Entry("Clean Data", df, df'))
    /\ out' = [kind |-> "dataframe", value |-> df']
    /\ UNCHANGED <<uploaded_file, analysis_options, pc>>

NextClean == ApplyCleanData

SpecClean == InitClean /\ [][NextClean]_vars

\* ------------------------------------------------------------------ the views on their own
\* Every table of up to MaxRows rows, as load_data returns it, with
\* one of filter_by_view_indicator, null_percentage_analysis and
\* column_view_indicator applied to it under every choice of the widgets.
InitProfile ==
    /\ uploaded_file \in {[present |-> TRUE, records |-> f] :
                            f \in WellFormedFiles(AgeFields, CityFields, MaxRows)}
    /\ analysis_options = {"Filter by View Indicator", "Null Percentage Analysis",
                           "Column View Indicator"}
    /\ df = load_data(uploaded_file.records)
    /\ pc = "profile"
    /\ log = <<>>
    /\ out = NoOutput

ApplyFilter ==
    /\ pc = "profile"
    /\ \E filter_column \in Columns :
         \E selected_values \in SUBSET unique_values(df, filter_column) :
            /\ df' = filter_by_view_indicator(df, filter_column, selected_values)
            /\ log' = Append(log, Entry("Filter by View Indicator", df, df'))
            /\ out' = [kind |-> "filter", column |-> filter_column,
                       selected |-> selected_values,
                       shown |-> FilterOutput(df, filter_column, selected_values)]
    /\ pc' = "filtered"
    /\ UNCHANGED <<uploaded_file, analysis_options>>

ApplyNullPercentage ==
    /\ pc = "profile"
    /\ \E grouping_options \in SUBSET Columns, features \in SUBSET Columns :
       \E raised \in BOOLEAN :
         /\ out' = [kind |-> "null", grouping |-> grouping_options, features |-> features,
                    shown |-> null_percentage_analysis(df, grouping_options, features, raised)]
         /\ log' = Append(log, Entry("Null Percentage Analysis", df, df))
    /\ pc' = "profiled"
    /\ UNCHANGED <<uploaded_file, analysis_options, df>>

ApplyColumnView ==
    /\ pc = "profile"
    /\ \E column \in Columns, view_indicator \in Views :
         /\ out' = [kind |-> "view", column |-> column, view |-> view_indicator,
                    shown |-> column_view_indicator(df, column, view_indicator)]
         /\ log' = Append(log, Entry("Column View Indicator", df, df))
    /\ pc' = "viewed"
    /\ UNCHANGED <<uploaded_file, analysis_options, df>>

NextProfile == ApplyFilter \/ ApplyNullPercentage \/ ApplyColumnView

SpecProfile == InitProfile /\ [][NextProfile]_vars

\* ================================================================== properties
\* res is the subsequence of src at the positions in I, in the order of src.
IsSubseqAt(res, src, I) ==
    /\ Len(res) = Cardinality(I)
    /\ \A i \in I : res[Cardinality({j \in I : j <= i})] = src[i]

\* The positions of the first occurrence of each distinct row.
FirstOccurrences(rows) ==
    {i \in 1..Len(rows) : \A j \in 1..(i - 1) : rows[j] # rows[i]}

HasDuplicates(rows) == FirstOccurrences(rows) # 1..Len(rows)

\* v is the p-th smallest of the non-missing values of column c at the
\* positions I of rows.
IsOrderStatistic(v, p, rows, c, I) ==
    LET present == {i \in I : ~isnull(rows[i][c])}
    IN /\ \E i \in present : rows[i][c][2] = v
       /\ Cardinality({i \in present : rows[i][c][2] < v}) < p
       /\ p <= Cardinality({i \in present : rows[i][c][2] <= v})

\* cell is the median of the non-missing values of column c at the positions
\* I of rows: twice its value is the sum of the two middle values.
IsMedianOf(cell, rows, c, I) ==
    LET present == {i \in I : ~isnull(rows[i][c])}
        n == Cardinality(present)
    IN IF n = 0 THEN isnull(cell)
       ELSE /\ cell[1] = "num"
            /\ \E lo, hi \in {rows[i][c][2] : i \in present} :
                 /\ IsOrderStatistic(lo, (n + 1) \div 2, rows, c, I)
                 /\ IsOrderStatistic(hi, n \div 2 + 1, rows, c, I)
                 /\ 2 * cell[2] = lo + hi

\* ------------------------------------------------------------------ C1
\* C1 (as claimed): clean_data is idempotent: cleaning the cleaned table
\* gives back the cleaned table, row for row and cell for cell.
C1_Idempotent == Len(log) >= 2 => log[2].res = log[2].arg

\* C1 (amended): a second clean_data only removes the exact duplicate rows
\* that imputation left in clean_data(T), keeping first occurrences in
\* order, and changes no cell; so it returns clean_data(T) exactly when
\* clean_data(T) has no two equal rows.
C1_SecondCleanOnlyDeduplicates ==
    \A k \in 2..Len(log) :
        LET once == log[k].arg
            twice == log[k].res
        IN /\ IsSubseqAt(twice.rows, once.rows, FirstOccurrences(once.rows))
           /\ twice.dtypes = once.dtypes
           /\ (twice = once) <=> ~HasDuplicates(once.rows)

C1_Witness ==
    /\ Len(log) >= 2
    /\ HasDuplicates(log[2].arg.rows)
    /\ log[2].res # log[2].arg
    /\ \E i \in 1..Len(log[1].arg.rows) : isnull(log[1].arg.rows[i]["age"])

\* ------------------------------------------------------------------ C7
\* C7: clean_data(T) has at most as many rows as T, and a numeric column
\* that had a non-missing value in T has no missing value in clean_data(T).
C7_NoMoreRowsNoNumericMissing ==
    \A k \in 1..Len(log) :
        LET T == log[k].arg
            R == log[k].res
        IN /\ Len(R.rows) <= Len(T.rows)
           /\ \A c \in Columns :
                (/\ R.dtypes[c] = "number"
                 /\ \E i \in 1..Len(T.rows) : ~isnull(T.rows[i][c]))
                => \A i \in 1..Len(R.rows) : ~isnull(R.rows[i][c])

C7_Witness ==
    /\ Len(log) >= 1
    /\ Len(log[1].res.rows) < Len(log[1].arg.rows)
    /\ \E i, j \in 1..Len(log[1].arg.rows) :
         isnull(log[1].arg.rows[i]["age"]) /\ ~isnull(log[1].arg.rows[j]["age"])
    /\ \A i \in 1..Len(log[1].res.rows) : ~isnull(log[1].res.rows[i]["age"])

\* ------------------------------------------------------------------ C8
\* C8: clean_data keeps the first occurrence of every distinct row in order,
\* then replaces each missing value of a numeric column by the median of
\* that column's non-missing values among the kept rows, and leaves every
\* other cell, the missing values of non-numeric columns included, as it is.
C8_DedupThenMedianOfSurvivors ==
    Len(log) >= 1 =>
        LET T == log[1].arg
            R == log[1].res
            K == FirstOccurrences(T.rows)
        IN /\ Len(R.rows) = Cardinality(K)
           /\ R.dtypes = T.dtypes
           /\ \A i \in K : \A c \in Columns :
                LET cell == R.rows[Cardinality({j \in K : j <= i})][c]
                IN IF T.dtypes[c] = "number" /\ isnull(T.rows[i][c])
                   THEN IsMedianOf(cell, T.rows, c, K)
                   ELSE cell = T.rows[i][c]

C8_Witness ==
    /\ Len(log) >= 1
    /\ HasDuplicates(log[1].arg.rows)
    /\ median(log[1].arg.rows, "age") # median(drop_duplicates(log[1].arg.rows), "age")
    /\ \E i \in 1..Len(log[1].arg.rows) : isnull(log[1].arg.rows[i]["age"])
    /\ log[1].arg.dtypes["city"] = "object"
    /\ \E i \in 1..Len(log[1].res.rows) : isnull(log[1].res.rows[i]["city"])

\* ------------------------------------------------------------------ C3
\* C3: with a non-empty selection V for column c, the filtered table is
\* exactly the rows of T whose value in c is in V, in the order of T, with
\* all columns; no returned row has a missing value in c.
C3_FilterKeepsExactlySelected ==
    (out.kind = "filter" /\ out.selected # {}) =>
        LET T == log[1].arg
            c == out.column
        IN /\ IsSubseqAt(df.rows, T.rows, {i \in 1..Len(T.rows) : T.rows[i][c] \in out.selected})
           /\ \A i \in 1..Len(df.rows) :
                /\ df.rows[i][c] \in out.selected
                /\ ~isnull(df.rows[i][c])
                /\ DOMAIN df.rows[i] = Columns
           /\ df.dtypes = T.dtypes

C3_Witness ==
    /\ out.kind = "filter"
    /\ out.selected # {}
    /\ out.selected # unique_values(log[1].arg, out.column)
    /\ \E i \in 1..Len(log[1].arg.rows) : isnull(log[1].arg.rows[i][out.column])
    /\ Len(df.rows) >= 1
    /\ Len(df.rows) < Len(log[1].arg.rows)

\* ------------------------------------------------------------------ C4
\* C4: with an empty selection the filter returns T itself, the rows with a
\* missing value in the filter column included.
C4_EmptySelectionReturnsTable ==
    (out.kind = "filter" /\ out.selected = {}) => df = log[1].arg

C4_Witness ==
    /\ out.kind = "filter"
    /\ out.selected = {}
    /\ unique_values(log[1].arg, out.column) # {}
    /\ \E i \in 1..Len(log[1].arg.rows) : isnull(log[1].arg.rows[i][out.column])
    /\ df = log[1].arg
    /\ Len(df.rows) >= 2

\* ------------------------------------------------------------------ C5
\* C5 (as claimed): in a grouped report every row of the table belongs to
\* exactly one reported group, rows with a missing group key included.
C5_EveryRowInOneGroup ==
    (out.kind = "null" /\ out.shown.kind = "grouped") =>
        \A i \in 1..Len(df.rows) :
            Cardinality({k \in DOMAIN out.shown.report :
                            k = GroupKey(df.rows[i], out.grouping)}) = 1

\* ------------------------------------------------------------------ C6
RECURSIVE SumOver(_, _)
SumOver(f, S) ==
    IF S = {} THEN 0
    ELSE LET x == CHOOSE y \in S : TRUE IN f[x] + SumOver(f, S \ {x})

\* C6 (as claimed): the per-group percentages of a feature, weighted by the
\* group's row count and summed over the reported groups, divided by the
\* row count of T, equal the ungrouped percentage 100 * missing / rows.
C6_WeightedGroupsEqualUngrouped ==
    (out.kind = "null" /\ out.shown.kind = "grouped" /\ df.rows # <<>>) =>
        \A f \in out.features :
            LET report == out.shown.report
                size == [k \in DOMAIN report |-> Len(GroupRows(df.rows, out.grouping, k))]
                \* percentage * size, exactly: (num / den) * size
                weighted == [k \in DOMAIN report |->
                               (report[k][f].num * size[k]) \div report[k][f].den]
            IN SumOver(weighted, DOMAIN report) = 100 * CountNull(df.rows, f)

C2_EverySelectedOperationRuns ==
    (pc \in {"done", "aborted"} /\ uploaded_file.present /\ df # None) =>
        \A o \in analysis_options : \E i \in 1..Len(log) : log[i].op = o

\* ------------------------------------------------------------------ C10
StepOrder == <<"Show Raw Data", "Clean Data", "Filter by View Indicator",
               "Exploratory Data Analysis", "Ollama Analysis",
               "Null Percentage Analysis", "Column View Indicator">>

Profiling == {"Exploratory Data Analysis", "Ollama Analysis",
              "Null Percentage Analysis", "Column View Indicator"}

IsPrefix(a, b) == Len(a) <= Len(b) /\ \A i \in 1..Len(a) : a[i] = b[i]

\* C10: the steps that run are the selected ones in the fixed order raw,
\* clean, filter, overview, narrative, null percentage, column view; raw
\* shows T, clean works on T, filter on the result of clean, and every
\* profiling step on the result of filter (each the identity when not
\* selected); a run that completes has run them all, and when no table was
\* loaded no step runs.
C10_FixedOrderOneTable ==
    LET T == load_data(uploaded_file.records)
        selected == SelectSeq(StepOrder, LAMBDA o : o \in analysis_options)
        ran == [i \in 1..Len(log) |-> log[i].op]
        cleaned == IF "Clean Data" \in analysis_options THEN clean_data(T) ELSE T
    IN /\ IsPrefix(ran, selected)
       /\ (~uploaded_file.present \/ T = None) => log = <<>>
       /\ (pc = "done" /\ uploaded_file.present /\ T # None) => ran = selected
       /\ \A i \in 1..Len(log) :
            CASE log[i].op = "Show Raw Data" -> log[i].arg = T /\ log[i].res = T
              [] log[i].op = "Clean Data" -> log[i].arg = T /\ log[i].res = clean_data(T)
              [] log[i].op = "Filter by View Indicator" ->
                    /\ log[i].arg = cleaned
                    /\ \E c \in Columns : \E V \in SUBSET unique_values(cleaned, c) :
                          log[i].res = filter_by_view_indicator(cleaned, c, V)
              [] OTHER ->
                    /\ log[i].res = log[i].arg
                    /\ log[i].arg = df
                    /\ IF "Filter by View Indicator" \in analysis_options
                       THEN \E j \in 1..(i - 1) :
                              log[j].op = "Filter by View Indicator" /\ log[j].res = log[i].arg
                       ELSE log[i].arg = cleaned

C10_Witness ==
    /\ pc = "done"
    /\ analysis_options = Options
    /\ Len(log) = 7
    /\ log[2].res # log[2].arg
    /\ log[3].res # log[3].arg
    /\ log[3].res.rows # <<>>
    /\ log[7].arg = log[3].res

====
